---------------------------- MODULE Spec2Model ----------------------------
(***************************************************************************)
(* Trading-session scheduler of SniperScannerChartink.py.                   *)
(*                                                                         *)
(* Instants are integers: ticks since 00:00:00 IST of a Monday (day 0).     *)
(* A tick is 60/TicksPerMinute seconds; the tick inside a minute stands for *)
(* the datetime's second and microsecond fields (0 = both zero).            *)
(* A datetime object is a record [tzinfo, wall]: its zone and the wall      *)
(* clock reading in that zone.                                              *)
(***************************************************************************)
EXTENDS Integers, Sequences, FiniteSets, TLC

\* ------------------------------------------------------------- bounds
\* Days of the first week, and ticks in a minute.
NumDays == 7
TicksPerMinute == 2

\* MAX_RETRIES ranges over 0 .. MaxRetriesBound; RETRY_BACKOFF is
\* BackoffSeconds. A sleep ends at its target or MaxOvershoot ticks late; a
\* clock read or an HTTP call takes no time or MaxCallTicks ticks.
MaxRetriesBound == 2
MaxOvershoot == 1
MaxCallTicks == 1
BackoffSeconds == 30
\* retry_on_failure called alone: max_retries in 0 .. MaxWrapperRetries,
\* backoff in 0 .. MaxBackoff
MaxWrapperRetries == 4
MaxBackoff == 3
\* the processes started at the same time
NumProcs == 2

\* ------------------------------------------- configuration (config.py)
\* "Trading time window: 09:15 to 15:15 IST. Run every 15 minutes."
TRADING_START_HOUR == 9
TRADING_START_MINUTE == 15
TRADING_END_HOUR == 15
TRADING_END_MINUTE == 15
SCAN_INTERVAL_MINUTES == 15
\* Asia/Kolkata is UTC+05:30.
IST_OFFSET_MINUTES == 330

\* ------------------------------------------------ main_loop's literals
COOLDOWN_SECONDS == 60
FALLBACK_SLEEP_SECONDS == 1
OFF_SESSION_HOURS == 24

\* ----------------------------------------------------- datetime fields
TicksPerHour == 60 * TicksPerMinute
TicksPerDay == 24 * TicksPerHour

\* The value standing for "replace() raised ValueError".
ValueError == -1

date(t) == t \div TicksPerDay
hour(t) == (t % TicksPerDay) \div TicksPerHour
minute(t) == (t % TicksPerHour) \div TicksPerMinute
second(t) == t % TicksPerMinute
weekday(t) == date(t) % 7
timedelta(days) == days * TicksPerDay

\* datetime.replace(hour=h, minute=m, second=0, microsecond=0)
replace(t, h, m) ==
  IF h \in 0..23 /\ m \in 0..59
  THEN date(t) * TicksPerDay + h * TicksPerHour + m * TicksPerMinute
  ELSE ValueError

utcoffset(tzinfo) == IF tzinfo = "UTC" THEN 0 ELSE IST_OFFSET_MINUTES * TicksPerMinute

\* IST.localize(now) for a naive datetime, now.astimezone(IST) otherwise.
normalize(dt) ==
  IF dt.tzinfo = "naive" THEN dt.wall
  ELSE dt.wall - utcoffset(dt.tzinfo) + utcoffset("IST")

get_ist_time(clock_ist) == [tzinfo |-> "IST", wall |-> clock_ist]

\* -------------------------------------------------- get_next_run_time
\* trading_start built without second=0, microsecond=0
trading_start_seconds_kept(now) ==
  replace(now, TRADING_START_HOUR, TRADING_START_MINUTE) + second(now)

trading_start(now) == replace(now, TRADING_START_HOUR, TRADING_START_MINUTE)
trading_end(now) == replace(now, TRADING_END_HOUR, TRADING_END_MINUTE)

\* "now <= trading_start" for "now < trading_start"
before_trading_start_inclusive(now) == now <= trading_start(now)

before_trading_start(now) == now < trading_start(now)
after_trading_end(now) == now > trading_end(now)

\* "weekday() > 5" for "weekday() >= 5": only Sunday is skipped
RECURSIVE skip_weekend_sunday_only(_)
skip_weekend_sunday_only(next_day) ==
  IF weekday(next_day) > 5
  THEN skip_weekend_sunday_only(next_day + timedelta(1)) ELSE next_day

\* while next_day.weekday() >= 5: next_day += timedelta(days=1)
RECURSIVE skip_weekend(_)
skip_weekend(next_day) ==
  IF weekday(next_day) >= 5 THEN skip_weekend(next_day + timedelta(1)) ELSE next_day

next_trading_day(now) ==
  replace(skip_weekend(now + timedelta(1)), TRADING_START_HOUR, TRADING_START_MINUTE)

\* rounds up to a boundary without the "+ 1": a boundary maps to itself
next_interval_minutes_not_strict(m) ==
  ((m + SCAN_INTERVAL_MINUTES - 1) \div SCAN_INTERVAL_MINUTES) * SCAN_INTERVAL_MINUTES

\* rounds down: the "+ 1" left out
next_interval_minutes_floor(m) ==
  (m \div SCAN_INTERVAL_MINUTES) * SCAN_INTERVAL_MINUTES

next_interval_minutes(m) == (m \div SCAN_INTERVAL_MINUTES + 1) * SCAN_INTERVAL_MINUTES

\* the carry into the next hour without "hour += 1"
candidate_no_hour_carry(now) ==
  LET minutes == next_interval_minutes(minute(now))
  IN  IF minutes = 60 THEN replace(now, hour(now), 0)
      ELSE replace(now, hour(now), minutes)

candidate(now) ==
  LET minutes == next_interval_minutes(minute(now))
  IN  IF minutes = 60 THEN replace(now, hour(now) + 1, 0)
      ELSE replace(now, hour(now), minutes)

\* the candidate returned without the "if candidate > trading_end" roll-over
get_next_run_time_no_rollover(dt) ==
  LET now == normalize(dt)
  IN  IF before_trading_start(now) THEN trading_start(now)
      ELSE IF after_trading_end(now) THEN next_trading_day(now)
      ELSE candidate(now)

get_next_run_time(dt) ==
  LET now == normalize(dt)
  IN  IF before_trading_start(now) THEN trading_start(now)
      ELSE IF after_trading_end(now) THEN next_trading_day(now)
      ELSE IF candidate(now) = ValueError THEN ValueError
      ELSE IF candidate(now) > trading_end(now) THEN next_trading_day(now)
      ELSE candidate(now)

\* ------------------- get_next_run_time with config.py's values as cfg
trading_start_for(cfg, now) == replace(now, cfg.start_hour, cfg.start_minute)
trading_end_for(cfg, now) == replace(now, cfg.end_hour, cfg.end_minute)
next_trading_day_for(cfg, now) ==
  replace(skip_weekend(now + timedelta(1)), cfg.start_hour, cfg.start_minute)
next_interval_minutes_for(cfg, m) == (m \div cfg.interval + 1) * cfg.interval

candidate_for(cfg, now) ==
  LET minutes == next_interval_minutes_for(cfg, minute(now))
  IN  IF minutes = 60 THEN replace(now, hour(now) + 1, 0)
      ELSE replace(now, hour(now), minutes)

get_next_run_time_for(cfg, dt) ==
  LET now == normalize(dt)
  IN  IF now < trading_start_for(cfg, now) THEN trading_start_for(cfg, now)
      ELSE IF now > trading_end_for(cfg, now) THEN next_trading_day_for(cfg, now)
      ELSE IF candidate_for(cfg, now) = ValueError THEN ValueError
      ELSE IF candidate_for(cfg, now) > trading_end_for(cfg, now)
           THEN next_trading_day_for(cfg, now)
      ELSE candidate_for(cfg, now)

\* ------------------------------------------------------- durations
\* (a - b).total_seconds() of two instants
total_seconds(ticks) == (ticks * 60) \div TicksPerMinute
\* The ticks a time.sleep(seconds) lasts at least: events fall on ticks.
sleep_ticks(seconds) == (seconds * TicksPerMinute + 59) \div 60

RECURSIVE pow2(_)
pow2(n) == IF n = 0 THEN 1 ELSE 2 * pow2(n - 1)
\* wait_time = backoff * (2 ** attempt)
wait_time(attempt_no) == BackoffSeconds * pow2(attempt_no)

\* ------------------------------------------------------- exceptions
\* "except:" for "except Exception": SystemExit is caught as well
is_Exception_bare(exc) == TRUE

\* issubclass(exc, Exception): SystemExit derives from BaseException only.
is_Exception(exc) == exc \in {"FetchError", "DeliveryError", "ValueError", "AttributeError"}

\* main_loop's handler catching fetch failures only
main_loop_catches_fetch_only(exc) == exc = "FetchError"

\* main_loop: except Exception as e
main_loop_catches(exc) == is_Exception(exc)
\* retry_on_failure.wrapper: except Exception as e
wrapper_catches(exc) == is_Exception(exc)

in_wrapper_try(at) == at \in {"fetch", "send"}
in_main_loop_try(at) ==
  at \in {"top", "is_trading_day", "weekend_sleep", "offsession_sleep", "sleep",
          "fetch", "fetch_backoff", "send", "send_backoff"}

\* the wrapper swallowing the last attempt's failure: "raise" left out, so the
\* loop ends and the caller goes on
unwind_swallows_last_failure(at, exc, attempt_no, retries) ==
  IF in_wrapper_try(at) /\ wrapper_catches(exc)
  THEN (IF attempt_no # retries - 1
        THEN (IF at = "fetch" THEN "fetch_backoff" ELSE "send_backoff")
        ELSE (IF at = "fetch" THEN "send" ELSE "top"))
  ELSE IF in_main_loop_try(at) /\ main_loop_catches(exc) THEN "cooldown"
  ELSE "exited"

\* Where control goes when exc is raised at position at, in the wrapper's
\* attempt number attempt_no of retries: the wrapper's handler retries unless
\* the attempt is the last, main_loop's handler cools down, nothing else
\* catches (__main__'s handlers end the process).
unwind(at, exc, attempt_no, retries) ==
  IF in_wrapper_try(at) /\ wrapper_catches(exc) /\ attempt_no # retries - 1
  THEN (IF at = "fetch" THEN "fetch_backoff" ELSE "send_backoff")
  ELSE IF in_main_loop_try(at) /\ main_loop_catches(exc) THEN "cooldown"
  ELSE "exited"

\* ------------------------------------------------------------- state
VARIABLES
  t_pc, t_arg, t_ret, t_ret2,   \* get_next_run_time called alone
  clock,          \* the wall clock in IST
  pc,             \* main_loop's position
  max_retries,    \* MAX_RETRIES of config.py
  now, next_run, wait_seconds,   \* main_loop's locals
  attempt,        \* wrapper's loop variable
  df,             \* job's local: what fetch_chartink_data returned
  term,           \* a termination signal was delivered
  term_at,        \* the clock when it was
  term_in,        \* main_loop's position when it was
  sent_after_term,  \* the Notifier was called after the signal
  failed_at,      \* the clock when main_loop's handler last caught
  last_target, prev_target,  \* next_run of the last two Job executions
  job_calls,      \* calls of job() in the current iteration of main_loop
  notify_calls,   \* calls of send_to_telegram made by the current job()
  notify_arg,     \* the argument job() passed to send_to_telegram
  slept_until,    \* target of a weekend or off-session sleep that has just
                  \* returned on the target, NoInstant otherwise
  r_pc, r_max, r_backoff, r_attempt,  \* retry_on_failure's wrapper called alone
  r_calls,        \* invocations of the wrapped function so far
  r_slept,        \* the time.sleep arguments of the wrapper, in order
  r_out,          \* what the wrapper returned or raised
  c_pc, c_cfg, c_now, c_ret,   \* get_next_run_time under a given config.py
  g_pc,           \* each process's position in __main__
  pid_file        \* the content of chartink_bot.pid

pvars == <<t_pc, t_arg, t_ret, t_ret2>>
lvars == <<clock, pc, max_retries, now, next_run, wait_seconds, attempt, df,
           term, term_at, term_in, sent_after_term, failed_at, last_target,
           prev_target, job_calls, notify_calls, notify_arg, slept_until>>
rvars == <<r_pc, r_max, r_backoff, r_attempt, r_calls, r_slept, r_out>>
cvars == <<c_pc, c_cfg, c_now, c_ret>>
gvars == <<g_pc, pid_file>>
xvars == <<rvars, cvars, gvars>>
vars == <<pvars, lvars, xvars>>

NoInstant == 0 - 2
\* The process is started in the last three days of the first week (Friday
\* to Sunday for a week of seven days) and is followed into the second
\* session after the weekend.
FirstStart == (NumDays - 3) * TicksPerDay
Horizon == (NumDays + 1) * TicksPerDay + 10 * TicksPerHour

LoopIdle ==
  /\ pc = "off" /\ clock = 0 /\ max_retries = 0
  /\ now = NoInstant /\ next_run = NoInstant /\ wait_seconds = 0
  /\ attempt = 0 /\ df = "unset"
  /\ term = FALSE /\ term_at = NoInstant /\ term_in = "none"
  /\ sent_after_term = FALSE
  /\ failed_at = NoInstant /\ last_target = NoInstant /\ prev_target = NoInstant
  /\ job_calls = 0 /\ notify_calls = 0 /\ notify_arg = "unset"
  /\ slept_until = NoInstant

PlannerIdle ==
  /\ t_pc = "off" /\ t_arg = [tzinfo |-> "IST", wall |-> 0]
  /\ t_ret = NoInstant /\ t_ret2 = NoInstant
RetryIdle ==
  /\ r_pc = "off" /\ r_max = 0 /\ r_backoff = 0 /\ r_attempt = 0
  /\ r_calls = 0 /\ r_slept = <<>> /\ r_out = "unset"
ConfigIdle ==
  /\ c_pc = "off" /\ c_cfg = <<>> /\ c_now = 0 /\ c_ret = NoInstant
GuardIdle == g_pc = <<>> /\ pid_file = [kind |-> "absent", pid |-> 0]
OthersIdle == RetryIdle /\ ConfigIdle /\ GuardIdle

Zones == {"naive", "IST", "UTC"}
Datetimes == [tzinfo : Zones, wall : 0 .. (NumDays * TicksPerDay - 1)]

\* ------------------------------------------- the planner called alone
PlannerInit ==
  /\ t_pc = "idle"
  /\ t_arg \in Datetimes
  /\ t_ret = NoInstant
  /\ t_ret2 = NoInstant
  /\ LoopIdle
  /\ OthersIdle

Call ==
  /\ t_pc = "idle"
  /\ t_ret' = get_next_run_time(t_arg)
  /\ t_pc' = "returned"
  /\ UNCHANGED <<t_arg, t_ret2, lvars, xvars>>

\* nextRun again, with the returned Instant minus one time unit as now
ReEvaluate ==
  /\ t_pc = "returned"
  /\ t_ret # ValueError
  /\ t_ret2' = get_next_run_time(get_ist_time(t_ret - 1))
  /\ t_pc' = "reevaluated"
  /\ UNCHANGED <<t_arg, t_ret, lvars, xvars>>

PlannerNext == Call \/ ReEvaluate

PlannerSpec == PlannerInit /\ [][PlannerNext]_vars

\* ------------------------------------------------------ main_loop
\* The process starts at any instant from FirstStart on, with any MAX_RETRIES.
Init ==
  /\ PlannerIdle
  /\ OthersIdle
  /\ clock \in FirstStart .. (NumDays * TicksPerDay - 1)
  /\ max_retries \in 0 .. MaxRetriesBound
  /\ pc = "top"
  /\ now = NoInstant /\ next_run = NoInstant /\ wait_seconds = 0
  /\ attempt = 0 /\ df = "unset"
  /\ term = FALSE /\ term_at = NoInstant /\ term_in = "none"
  /\ sent_after_term = FALSE
  /\ failed_at = NoInstant /\ last_target = NoInstant /\ prev_target = NoInstant
  /\ job_calls = 0 /\ notify_calls = 0 /\ notify_arg = "unset"
  /\ slept_until = NoInstant

\* An exception exc raised at the current position.
Raise(exc, at_clock) ==
  /\ pc' = unwind(pc, exc, attempt, max_retries)
  /\ failed_at' = IF pc' = "cooldown" THEN at_clock ELSE failed_at

\* time.sleep(seconds) inside main_loop's try, then control at after.
Sleep(seconds, after) ==
  IF seconds < 0
  THEN /\ Raise("ValueError", clock)
       /\ clock' = clock
  ELSE \E o \in {0, MaxOvershoot} :
         /\ clock + sleep_ticks(seconds) + o <= Horizon
         /\ clock' = clock + sleep_ticks(seconds) + o
         /\ pc' = after
         /\ failed_at' = NoInstant

\* now = get_ist_time(); the clock may move before is_trading_day reads it
ReadNow ==
  /\ pc = "top"
  /\ now' = clock
  /\ \E d \in {0, MaxCallTicks} :
       /\ clock + d <= Horizon
       /\ clock' = clock + d
  /\ pc' = "is_trading_day"
  /\ job_calls' = 0
  /\ notify_calls' = 0
  /\ UNCHANGED <<pvars, xvars, max_retries, next_run, wait_seconds, attempt, df, term,
                 term_at, term_in, sent_after_term, failed_at, last_target, prev_target,
                 notify_arg, slept_until>>

\* "weekday() < 6": Saturday taken for a trading day
is_trading_day_with_saturday(clock_ist) ==
  weekday(normalize(get_ist_time(clock_ist))) < 6

is_trading_day(clock_ist) == weekday(normalize(get_ist_time(clock_ist))) < 5

\* "two days ahead" for "7 - now.weekday() days ahead": right on Saturdays only
next_monday_run_two_days(n) ==
  replace(n + timedelta(2), TRADING_START_HOUR, TRADING_START_MINUTE)

\* next Monday at session start, from now's weekday
next_monday_run(n) ==
  replace(n + timedelta(7 - weekday(n)), TRADING_START_HOUR, TRADING_START_MINUTE)

\* if not is_trading_day(): ... wait_seconds = (next_run - now).total_seconds()
PlanWeekend ==
  /\ pc = "is_trading_day"
  /\ ~is_trading_day(clock)
  /\ next_run' = next_monday_run(now)
  /\ wait_seconds' = total_seconds(next_run' - now)
  /\ pc' = "weekend_sleep"
  /\ UNCHANGED <<pvars, xvars, clock, max_retries, now, attempt, df, term, term_at, term_in,
                 sent_after_term, failed_at, last_target, prev_target,
                 job_calls, notify_calls, notify_arg, slept_until>>

\* "24" read as seconds: the "* 3600" left out
off_session_hours_as_seconds(wait) == wait > OFF_SESSION_HOURS

\* if wait_seconds > 24 * 3600: the off-session gap
off_session(wait) == wait > OFF_SESSION_HOURS * 3600

\* next_run = get_next_run_time(now); the wait decides which sleep follows
PlanTradingDay ==
  /\ pc = "is_trading_day"
  /\ is_trading_day(clock)
  /\ LET r == get_next_run_time(get_ist_time(now))
     IN  IF r = ValueError
         THEN /\ Raise("ValueError", clock)
              /\ UNCHANGED <<next_run, wait_seconds>>
         ELSE /\ next_run' = r
              /\ wait_seconds' = total_seconds(r - now)
              /\ pc' = IF off_session(wait_seconds')
                        THEN "offsession_sleep" ELSE "sleep"
              /\ failed_at' = failed_at
  /\ UNCHANGED <<pvars, xvars, clock, max_retries, now, attempt, df, term, term_at, term_in,
                 sent_after_term, last_target, prev_target,
                 job_calls, notify_calls, notify_arg, slept_until>>

WeekendSleep ==
  /\ pc = "weekend_sleep"
  /\ Sleep(wait_seconds, "top")
  /\ slept_until' = IF pc' = "top" /\ clock' = next_run THEN next_run ELSE NoInstant
  /\ UNCHANGED <<pvars, xvars, max_retries, now, next_run, wait_seconds, attempt, df,
                 term, term_at, term_in, sent_after_term, last_target, prev_target,
                 job_calls, notify_calls, notify_arg>>

OffSessionSleep ==
  /\ pc = "offsession_sleep"
  /\ Sleep(wait_seconds, "top")
  /\ slept_until' = IF pc' = "top" /\ clock' = next_run THEN next_run ELSE NoInstant
  /\ UNCHANGED <<pvars, xvars, max_retries, now, next_run, wait_seconds, attempt, df,
                 term, term_at, term_in, sent_after_term, last_target, prev_target,
                 job_calls, notify_calls, notify_arg>>

\* the sleep before the run, then job() is entered
PreRunSleep ==
  /\ pc = "sleep"
  /\ IF wait_seconds > 0
     THEN Sleep(wait_seconds, "fetch")
     ELSE Sleep(FALLBACK_SLEEP_SECONDS, "fetch")
  /\ attempt' = 0
  /\ prev_target' = last_target
  /\ last_target' = next_run
  /\ job_calls' = IF pc' = "fetch" THEN job_calls + 1 ELSE job_calls
  /\ slept_until' = NoInstant
  /\ UNCHANGED <<pvars, xvars, max_retries, now, next_run, wait_seconds, df, term,
                 term_at, term_in, sent_after_term,
                 notify_calls, notify_arg>>

\* range(max_retries) is empty: the wrapper returns None without a call
FetchNoAttempt ==
  /\ pc = "fetch"
  /\ max_retries = 0
  /\ df' = "None"
  /\ pc' = "send"
  /\ notify_calls' = notify_calls + 1
  /\ notify_arg' = df'
  /\ UNCHANGED <<pvars, xvars, clock, max_retries, now, next_run, wait_seconds, attempt,
                 term, term_at, term_in, sent_after_term, failed_at, last_target, prev_target,
                 job_calls, slept_until>>

FetchReturns ==
  /\ pc = "fetch"
  /\ attempt < max_retries
  /\ \E d \in {0, MaxCallTicks} :
       /\ clock + d <= Horizon
       /\ clock' = clock + d
  /\ df' \in {"rows", "empty"}
  /\ attempt' = 0
  /\ pc' = "send"
  /\ notify_calls' = notify_calls + 1
  /\ notify_arg' = df'
  /\ UNCHANGED <<pvars, xvars, max_retries, now, next_run, wait_seconds, term, term_at, term_in,
                 sent_after_term, failed_at, last_target, prev_target,
                 job_calls, slept_until>>

FetchFails ==
  /\ pc = "fetch"
  /\ attempt < max_retries
  /\ \E d \in {0, MaxCallTicks} :
       /\ clock + d <= Horizon
       /\ clock' = clock + d
  /\ Raise("FetchError", clock')
  /\ attempt' = IF pc' = "fetch_backoff" THEN attempt ELSE 0
  /\ UNCHANGED <<pvars, xvars, max_retries, now, next_run, wait_seconds, df,
                 term, term_at, term_in, sent_after_term, last_target, prev_target,
                 job_calls, notify_calls, notify_arg, slept_until>>

FetchBackoff ==
  /\ pc = "fetch_backoff"
  /\ Sleep(wait_time(attempt), "fetch")
  /\ attempt' = attempt + 1
  /\ UNCHANGED <<pvars, xvars, max_retries, now, next_run, wait_seconds, df, term,
                 term_at, term_in, sent_after_term, last_target, prev_target,
                 job_calls, notify_calls, notify_arg, slept_until>>

SendNoAttempt ==
  /\ pc = "send"
  /\ max_retries = 0
  /\ pc' = "top"
  /\ df' = "unset"
  /\ notify_arg' = "unset"
  /\ UNCHANGED <<pvars, xvars, clock, max_retries, now, next_run, wait_seconds, attempt,
                 term, term_at, term_in, sent_after_term, failed_at, last_target,
                 prev_target,
                 job_calls, notify_calls, slept_until>>

\* df.empty on None raises AttributeError before anything is posted
SendReturns ==
  /\ pc = "send"
  /\ attempt < max_retries
  /\ df # "None"
  /\ \E d \in {0, MaxCallTicks} :
       /\ clock + d <= Horizon
       /\ clock' = clock + d
  /\ sent_after_term' = (sent_after_term \/ term)
  /\ pc' = "top"
  /\ df' = "unset"
  /\ notify_arg' = "unset"
  /\ UNCHANGED <<pvars, xvars, max_retries, now, next_run, wait_seconds, attempt,
                 term, term_at, term_in, failed_at, last_target, prev_target,
                 job_calls, notify_calls, slept_until>>

SendFails ==
  /\ pc = "send"
  /\ attempt < max_retries
  /\ \E d \in {0, MaxCallTicks} :
       /\ clock + d <= Horizon
       /\ clock' = clock + d
  /\ sent_after_term' = (sent_after_term \/ (term /\ df # "None"))
  /\ Raise(IF df = "None" THEN "AttributeError" ELSE "DeliveryError", clock')
  /\ attempt' = IF pc' = "send_backoff" THEN attempt ELSE 0
  /\ df' = IF pc' = "send_backoff" THEN df ELSE "unset"
  /\ notify_arg' = IF pc' = "send_backoff" THEN notify_arg ELSE "unset"
  /\ UNCHANGED <<pvars, xvars, max_retries, now, next_run, wait_seconds,
                 term, term_at, term_in, last_target, prev_target,
                 job_calls, notify_calls, slept_until>>

SendBackoff ==
  /\ pc = "send_backoff"
  /\ Sleep(wait_time(attempt), "send")
  /\ attempt' = attempt + 1
  /\ UNCHANGED <<pvars, xvars, max_retries, now, next_run, wait_seconds, df, term,
                 term_at, term_in, sent_after_term, last_target, prev_target,
                 job_calls, notify_calls, notify_arg, slept_until>>

\* logging.error(...); time.sleep(60); continue
Cooldown ==
  /\ pc = "cooldown"
  /\ \E o \in {0, MaxOvershoot} :
       /\ clock + sleep_ticks(COOLDOWN_SECONDS) + o <= Horizon
       /\ clock' = clock + sleep_ticks(COOLDOWN_SECONDS) + o
  /\ pc' = "top"
  /\ slept_until' = NoInstant
  /\ UNCHANGED <<pvars, xvars, max_retries, now, next_run, wait_seconds, attempt, df,
                 term, term_at, term_in, sent_after_term, failed_at, last_target, prev_target,
                 job_calls, notify_calls, notify_arg>>

\* SIGINT or SIGTERM: signal_handler raises SystemExit where main_loop stands
Signal ==
  /\ pc # "exited"
  /\ ~term
  /\ term' = TRUE
  /\ term_at' = clock
  /\ term_in' = pc
  /\ pc' = unwind(pc, "SystemExit", attempt, max_retries)
  /\ IF pc' = "exited"
     THEN \* the frames of main_loop, job and wrapper are gone
          /\ now' = NoInstant /\ next_run' = NoInstant /\ wait_seconds' = 0
          /\ attempt' = 0 /\ df' = "unset"
          /\ job_calls' = 0 /\ notify_calls' = 0 /\ notify_arg' = "unset"
          /\ slept_until' = NoInstant
     ELSE UNCHANGED <<now, next_run, wait_seconds, attempt, df, job_calls,
                      notify_calls, notify_arg, slept_until>>
  /\ UNCHANGED <<pvars, xvars, clock, max_retries, sent_after_term, failed_at,
                 last_target, prev_target>>

Next ==
  \/ ReadNow \/ PlanWeekend \/ PlanTradingDay
  \/ WeekendSleep \/ OffSessionSleep \/ PreRunSleep
  \/ FetchNoAttempt \/ FetchReturns \/ FetchFails \/ FetchBackoff
  \/ SendNoAttempt \/ SendReturns \/ SendFails \/ SendBackoff
  \/ Cooldown \/ Signal

Spec == Init /\ [][Next]_vars

\* ------------------------------------------- what the claims speak of
\* The argument as an Instant of the configured zone.
T == normalize(t_arg)
Returned == t_pc \in {"returned", "reevaluated"}

SessionStartOf(d) ==
  d * TicksPerDay + (TRADING_START_HOUR * 60 + TRADING_START_MINUTE) * TicksPerMinute
SessionEndOf(d) ==
  d * TicksPerDay + (TRADING_END_HOUR * 60 + TRADING_END_MINUTE) * TicksPerMinute

IsTradingDate(d) == d % 7 \in 0..4
\* The first calendar date after d that is Monday to Friday.
NextTradingDate(d) ==
  CHOOSE e \in (d + 1) .. (d + 7) :
    IsTradingDate(e) /\ \A f \in (d + 1) .. (e - 1) : ~IsTradingDate(f)

\* A time whose minute-of-hour is a multiple of the interval, seconds zero.
IsGridInstant(g) == second(g) = 0 /\ minute(g) % SCAN_INTERVAL_MINUTES = 0
CeilDiv(a, b) == (a + b - 1) \div b

\* C1: for every instant t strictly before the session start of t's own
\* calendar date, get_next_run_time(t) is exactly the session start of t's
\* date (same date, start hour and minute, seconds zero).
C1_BeforeOpenReturnsOpen ==
  (Returned /\ T < SessionStartOf(date(T))) => t_ret = SessionStartOf(date(T))

C1_Witness ==
  /\ Returned
  /\ T < SessionStartOf(date(T))
  /\ second(T) # 0
  /\ t_ret = SessionStartOf(date(T))

\* C2: for every instant t strictly after the session end of t's date,
\* get_next_run_time(t) is the session start of the first later calendar
\* date that is Monday to Friday, whatever the weekday of t.
C2_AfterCloseReturnsNextTradingDay ==
  (Returned /\ T > SessionEndOf(date(T)))
    => t_ret = SessionStartOf(NextTradingDate(date(T)))

C2_Witness ==
  /\ Returned
  /\ T > SessionEndOf(date(T))
  /\ weekday(T) = 4
  /\ t_ret = SessionStartOf(date(T) + 3)

\* C3: for every instant t in [sessionStart, sessionEnd) that is not on an
\* interval boundary, get_next_run_time(t) is the smallest grid instant of
\* t's date strictly greater than t; and the code's
\* (minute // interval + 1) * interval equals ceil((minute+1)/interval) *
\* interval.
C3_InSessionSnapsToNextGrid ==
  (/\ Returned
   /\ SessionStartOf(date(T)) <= T
   /\ T < SessionEndOf(date(T))
   /\ ~IsGridInstant(T))
    => /\ t_ret > T
       /\ date(t_ret) = date(T)
       /\ IsGridInstant(t_ret)
       /\ \A g \in (T + 1) .. (t_ret - 1) : ~IsGridInstant(g)
       /\ next_interval_minutes(minute(T))
            = CeilDiv(minute(T) + 1, SCAN_INTERVAL_MINUTES) * SCAN_INTERVAL_MINUTES

\* 09:50:30 snaps to 10:00:00, the carry into the next hour.
C3_Witness ==
  /\ Returned
  /\ hour(T) = 9 /\ minute(T) = 50 /\ second(T) # 0
  /\ hour(t_ret) = 10 /\ minute(t_ret) = 0 /\ second(t_ret) = 0
  /\ date(t_ret) = date(T)

\* C4: get_next_run_time evaluated exactly at sessionEnd returns the session
\* start of the next trading day, and never sessionEnd itself.
C4_AtCloseRollsOver ==
  (Returned /\ T = SessionEndOf(date(T)))
    => /\ t_ret = SessionStartOf(NextTradingDate(date(T)))
       /\ t_ret # SessionEndOf(date(T))

C4_Witness ==
  /\ Returned
  /\ T = SessionEndOf(date(T))
  /\ weekday(T) = 2
  /\ t_ret = SessionStartOf(date(T) + 1)

\* C5: get_next_run_time evaluated exactly at tradingStart returns
\* tradingStart + intervalMinutes, not tradingStart itself.
C5_AtOpenReturnsSecondTick ==
  (Returned /\ T = SessionStartOf(date(T)))
    => t_ret = T + SCAN_INTERVAL_MINUTES * TicksPerMinute

C5_Witness ==
  /\ Returned
  /\ T = SessionStartOf(date(T))
  /\ hour(t_ret) = 9 /\ minute(t_ret) = 30 /\ second(t_ret) = 0

\* C6: idempotence under re-evaluation: if r = get_next_run_time(t) then
\* get_next_run_time(r minus one time unit) = r, for every instant t.
C6_ReEvaluationIdempotent ==
  t_pc = "reevaluated" => t_ret2 = t_ret

C6_Witness ==
  /\ t_pc = "reevaluated"
  /\ T > SessionStartOf(date(T)) /\ T < SessionEndOf(date(T))
  /\ t_ret2 = t_ret
  /\ t_ret > T

\* C7: get_next_run_time with now on a Saturday at 10:00 returns the
\* following Monday's session start 09:15:00, skipping Sunday.
C7_SaturdayInWindowReturnsMonday ==
  (Returned /\ weekday(T) = 5 /\ hour(T) = 10 /\ minute(T) = 0 /\ second(T) = 0)
    => t_ret = SessionStartOf(date(T) + 2)

\* -------------------------------------------------- main_loop's claims
CooldownTicks == sleep_ticks(COOLDOWN_SECONDS)

\* The schedule of the current iteration is the one computed from its now.
PlannedFromNow ==
  /\ pc = "weekend_sleep" => next_run = next_monday_run(now)
  /\ pc \in {"offsession_sleep", "sleep"}
       => next_run = get_next_run_time(get_ist_time(now))

\* C8: a Job failure never terminates main_loop: an exception raised in an
\* iteration is caught, the loop sleeps the 60-unit cooldown and starts a new
\* iteration that reads a fresh time and recomputes next_run from it; without
\* a termination request main_loop never exits.
C8_FailureCoolsDownAndReplans ==
  /\ [](pc = "exited" => term)
  /\ []((failed_at # NoInstant /\ pc \in {"is_trading_day", "weekend_sleep",
                                            "offsession_sleep", "sleep"})
          => (now >= failed_at + CooldownTicks /\ PlannedFromNow))
  /\ [][(pc = "cooldown" /\ pc' # "cooldown" /\ ~term')
          => (pc' = "top" /\ clock' >= clock + CooldownTicks)]_vars
  /\ [][(pc \in {"fetch", "send"} /\ ~term' /\ pc' \notin {"fetch", "send", "top"})
          => pc' \in {"fetch_backoff", "send_backoff", "cooldown"}]_vars

\* After a failed Job and its cooldown the loop has planned the next grid
\* instant from a time read after the cooldown.
C8_Witness ==
  /\ failed_at # NoInstant
  /\ pc = "sleep"
  /\ last_target # NoInstant
  /\ failed_at >= last_target
  /\ now >= failed_at + CooldownTicks
  /\ next_run > last_target
  /\ ~term

\* C9: a termination request delivered in any scheduler state makes the loop
\* exit at once: the exit is caught neither by main_loop's handler nor by the
\* retry wrapper, no sleep is waited out, and no Notifier call follows it.
C9_SignalExitsAtOnce ==
  term => (pc = "exited" /\ clock = term_at /\ ~sent_after_term)

\* The request arrived while a Job was in flight, between fetch and send.
C9_Witness ==
  /\ term
  /\ term_in = "send"
  /\ pc = "exited"
  /\ clock = term_at

\* C10: the targets of successive Job executions are strictly increasing, so
\* no grid instant is served twice (sleeps never return early).
C10_TargetsStrictlyIncrease ==
  last_target # NoInstant => prev_target < last_target

\* Two Job executions served consecutive grid instants.
C10_Witness ==
  /\ prev_target # NoInstant
  /\ last_target = prev_target + SCAN_INTERVAL_MINUTES * TicksPerMinute
  /\ pc = "fetch"

\* job() has just been invoked: the clock is the instant of its invocation.
JobJustInvoked == pc = "fetch" /\ attempt = 0
InSession(t) ==
  /\ IsTradingDate(date(t))
  /\ SessionStartOf(date(t)) <= t
  /\ t <= SessionEndOf(date(t))

\* C11: the Job is only ever started during market hours: the instant it is
\* scheduled for is on a trading day and inside that day's session window, and
\* so is the instant job() is invoked when the sleep returned at its target.
C11_JobOnlyInSession ==
  JobJustInvoked
    => /\ InSession(last_target)
       /\ (clock = last_target => InSession(clock))

\* A Job invoked on time at the session end, 15:15:00.
C11_Witness ==
  /\ JobJustInvoked
  /\ clock = last_target
  /\ clock = SessionEndOf(date(clock))

\* The first Monday strictly after calendar date d.
NextMondayDate(d) == CHOOSE e \in (d + 1) .. (d + 7) : e % 7 = 0

\* C12: when an iteration finds the day is not a trading day, its target is
\* the session start of the next Monday, strictly after the now it read,
\* whichever days its two clock readings fell on; it sleeps until that
\* target, runs no Job, and the next iteration starts from a fresh reading.
C12_WeekendTargetsNextMonday ==
  /\ [](pc = "weekend_sleep"
          => /\ next_run = SessionStartOf(NextMondayDate(date(now)))
             /\ next_run > now
             /\ wait_seconds = total_seconds(next_run - now))
  /\ [][(pc = "weekend_sleep" /\ pc' # "weekend_sleep" /\ ~term')
          => /\ pc' = "top"
             /\ clock' >= next_run
             /\ last_target' = last_target
             /\ prev_target' = prev_target]_vars
  /\ [][(pc = "top" /\ pc' # "top" /\ ~term')
          => (pc' = "is_trading_day" /\ now' = clock)]_vars

\* now was read on Friday and is_trading_day read the clock on Saturday.
C12_Witness ==
  /\ pc = "weekend_sleep"
  /\ weekday(now) = 4
  /\ weekday(clock) = 5
  /\ weekday(next_run) = 0
  /\ date(next_run) = date(now) + 3

\* C19: strict progress: whenever get_next_run_time returns, the Instant is
\* strictly greater than now, so main_loop's wait_seconds is strictly
\* positive and the fallback sleep of one time unit is never taken.  The
\* planner's part ranges over every datetime; it is evaluated in one initial
\* state, being the same in all.
C19_StrictProgress ==
  /\ pc \in {"sleep", "offsession_sleep"} => (next_run > now /\ wait_seconds > 0)
  /\ (pc = "top" /\ now = NoInstant /\ clock = FirstStart /\ max_retries = 0)
       => \A dt \in Datetimes :
            get_next_run_time(dt) # ValueError
              => get_next_run_time(dt) > normalize(dt)

\* The shortest wait there is: one tick before a grid instant.
C19_Witness ==
  /\ pc = "sleep"
  /\ next_run = now + 1
  /\ wait_seconds = total_seconds(1)
  /\ wait_seconds > 0

\* 24 hours in the unit of wait_seconds
DaySeconds == total_seconds(TicksPerDay)
InJob == pc \in {"fetch", "fetch_backoff", "send", "send_backoff"}
\* the step is the delivery of a termination signal
Signalled == term' /\ ~term

\* C13: in a trading-day iteration whose wait until get_next_run_time(now)
\* exceeds 24 hours the loop sleeps that wait and goes back to the clock read
\* with no call of job() in the iteration; in every other trading-day
\* iteration that does not fail the wait is at most 24 hours, the loop
\* sleeps it and then calls job() exactly once before the next iteration.
C13_OffSessionSkipsJobElseOnce ==
  /\ [](pc = "offsession_sleep"
          => /\ wait_seconds = total_seconds(next_run - now)
             /\ wait_seconds > DaySeconds
             /\ job_calls = 0)
  /\ [](pc = "sleep"
          => /\ wait_seconds = total_seconds(next_run - now)
             /\ wait_seconds <= DaySeconds
             /\ job_calls = 0)
  /\ [](job_calls <= 1)
  /\ [](InJob => job_calls = 1)
  /\ [][(pc = "offsession_sleep" /\ ~Signalled)
          => /\ pc' \in {"offsession_sleep", "top"}
             /\ job_calls' = 0
             /\ (pc' = "top" => clock' >= clock + sleep_ticks(wait_seconds))]_vars
  /\ [][(pc = "sleep" /\ ~Signalled)
          => /\ pc' \in {"sleep", "fetch"}
             /\ (pc' = "fetch"
                   => /\ job_calls' = 1
                      /\ attempt' = 0
                      /\ clock' >= clock + sleep_ticks(wait_seconds))]_vars
  /\ [][job_calls' > job_calls => pc = "sleep"]_vars
  /\ [][(InJob /\ ~Signalled) => job_calls' = 1]_vars

\* Friday after the close: the off-session sleep has returned, no job() ran.
C13_Witness ==
  /\ pc = "top"
  /\ weekday(now) = 4 /\ now >= SessionEndOf(date(now))
  /\ wait_seconds > DaySeconds
  /\ clock >= next_run
  /\ job_calls = 0
  /\ last_target # NoInstant

FetchResults == {"rows", "empty", "None"}

\* C14: within one job() send_to_telegram is called only after the wrapped
\* fetch_chartink_data has returned, at most once, and with exactly the value
\* the fetch returned; when the fetch fails on its last attempt
\* send_to_telegram is not called and the failure reaches main_loop's
\* handler, which cools down.
C14_NotifyAfterFetchOnceWithResult ==
  /\ [](pc \in {"send", "send_backoff"}
          => /\ notify_calls = 1
             /\ df \in FetchResults
             /\ notify_arg = df)
  /\ [](pc \in {"fetch", "fetch_backoff"} => notify_calls = 0)
  /\ [](notify_calls <= 1)
  /\ [][notify_calls' > notify_calls
          => /\ pc = "fetch" /\ pc' = "send"
             /\ df' \in FetchResults
             /\ notify_arg' = df']_vars
  /\ [][(pc \in {"send", "send_backoff"} /\ pc' \in {"send", "send_backoff"})
          => (notify_arg' = notify_arg /\ notify_calls' = 1)]_vars
  /\ [][(pc = "fetch" /\ ~Signalled /\ pc' \notin {"fetch", "send", "fetch_backoff"})
          => /\ pc' = "cooldown"
             /\ attempt = max_retries - 1
             /\ notify_calls' = 0
             /\ failed_at' = clock']_vars
  /\ [][(pc = "cooldown" /\ ~Signalled) => notify_calls' = notify_calls]_vars

\* The fetch failed once and then returned rows; the first delivery failed.
C14_Witness ==
  /\ pc = "send_backoff"
  /\ max_retries = 2
  /\ df = "rows" /\ notify_arg = "rows"
  /\ notify_calls = 1
  /\ clock >= last_target + sleep_ticks(wait_time(0))

\* C16: for every MAX_RETRIES, 0 included, the wrapped fetch_chartink_data
\* returns a table (possibly empty) or fails, never None, so job() never
\* calls send_to_telegram with None.
C16_FetchNeverReturnsNone ==
  pc \in {"send", "send_backoff"}
    => (df \in {"rows", "empty"} /\ notify_arg \in {"rows", "empty"})

\* C18: after a weekend sleep or an off-session sleep has returned exactly
\* on its target, a session start, the iteration that follows plans the run
\* of that session start, so that its Job is executed before the schedule
\* moves on to the session start plus one interval.
C18_SessionOpenJobAfterLongSleep ==
  (pc = "sleep" /\ slept_until # NoInstant /\ now = slept_until)
    => next_run = slept_until

\* ------------------------------ retry_on_failure's wrapper called alone
\* the wait growing by backoff each time instead of doubling
backoff_wait_linear(backoff, attempt_no) == backoff * (attempt_no + 1)

\* wait_time = backoff * (2 ** attempt)
backoff_wait(backoff, attempt_no) == backoff * pow2(attempt_no)

\* The wrapper is entered with any max_retries and backoff.
RetryInit ==
  /\ r_pc = "loop"
  /\ r_max \in 0 .. MaxWrapperRetries
  /\ r_backoff \in 0 .. MaxBackoff
  /\ r_attempt = 0 /\ r_calls = 0 /\ r_slept = <<>> /\ r_out = "unset"
  /\ PlannerIdle /\ LoopIdle /\ ConfigIdle /\ GuardIdle

\* range(max_retries) is exhausted: return None
RetryLoopEnds ==
  /\ r_pc = "loop"
  /\ r_attempt >= r_max
  /\ r_out' = "None"
  /\ r_pc' = "returned"
  /\ UNCHANGED <<pvars, lvars, cvars, gvars, r_max, r_backoff, r_attempt,
                 r_calls, r_slept>>

\* return func(*args, **kwargs)
RetryCallReturns ==
  /\ r_pc = "loop"
  /\ r_attempt < r_max
  /\ r_calls' = r_calls + 1
  /\ r_out' \in {"rows", "empty"}
  /\ r_pc' = "returned"
  /\ UNCHANGED <<pvars, lvars, cvars, gvars, r_max, r_backoff, r_attempt, r_slept>>

\* func raises: except Exception retries unless the attempt is the last
RetryCallRaises ==
  /\ r_pc = "loop"
  /\ r_attempt < r_max
  /\ r_calls' = r_calls + 1
  /\ \E exc \in {"FetchError", "SystemExit"} :
       IF wrapper_catches(exc) /\ r_attempt # r_max - 1
       THEN r_pc' = "backoff" /\ r_out' = r_out
       ELSE r_pc' = "raised" /\ r_out' = exc
  /\ UNCHANGED <<pvars, lvars, cvars, gvars, r_max, r_backoff, r_attempt, r_slept>>

\* time.sleep(wait_time), then the next attempt
RetryBackoff ==
  /\ r_pc = "backoff"
  /\ r_slept' = Append(r_slept, backoff_wait(r_backoff, r_attempt))
  /\ r_attempt' = r_attempt + 1
  /\ r_pc' = "loop"
  /\ UNCHANGED <<pvars, lvars, cvars, gvars, r_max, r_backoff, r_calls, r_out>>

RetryNext == RetryLoopEnds \/ RetryCallReturns \/ RetryCallRaises \/ RetryBackoff

RetrySpec == RetryInit /\ [][RetryNext]_vars

\* C15: the wrapped function is invoked at most max_retries times; the first
\* invocation that returns ends the call with its result and nothing is
\* invoked after it; after the k-th failure, k < max_retries, the wrapper
\* sleeps backoff * 2^(k-1) before the next attempt; the failure of attempt
\* number max_retries is raised to the caller with no sleep after it.
C15_RetryBoundedExponential ==
  /\ [](r_calls <= r_max)
  /\ [](\A k \in 1 .. Len(r_slept) : r_slept[k] = r_backoff * 2 ^ (k - 1))
  /\ []((r_pc = "returned" /\ r_out # "None")
          => /\ r_out \in {"rows", "empty"}
             /\ r_calls = Len(r_slept) + 1)
  /\ [](r_pc = "backoff" => (r_calls = Len(r_slept) + 1 /\ r_calls < r_max))
  /\ []((r_pc = "raised" /\ is_Exception(r_out))
          => (r_calls = r_max /\ Len(r_slept) = r_max - 1))
  /\ [][r_pc = "backoff"
          => \/ r_pc' = "backoff"
             \/ /\ r_pc' = "loop"
                /\ r_calls' = r_calls
                /\ r_slept' = Append(r_slept, r_backoff * 2 ^ (r_calls - 1))]_vars
  /\ [][(r_pc \in {"returned", "raised"}) => (rvars' = rvars)]_vars

\* Four attempts with backoff 3: waits of 3, 6 and 12, then the failure.
C15_Witness ==
  /\ r_pc = "raised" /\ r_out = "FetchError"
  /\ r_max = 4 /\ r_backoff = 3
  /\ r_calls = 4
  /\ r_slept = <<3, 6, 12>>

\* ------------------------ get_next_run_time under a given config.py
\* The five values of config.py the function reads.
Configs ==
  [start_hour : {9}, start_minute : {15}, end_hour : {15, 23},
   end_minute : {15, 45}, interval : {5, 7, 15, 40, 45}]

\* Any of the configurations, any instant of the first Monday.
ConfigInit ==
  /\ c_pc = "idle"
  /\ c_cfg \in Configs
  /\ c_now \in 0 .. (TicksPerDay - 1)
  /\ c_ret = NoInstant
  /\ PlannerIdle /\ LoopIdle /\ RetryIdle /\ GuardIdle

ConfigCall ==
  /\ c_pc = "idle"
  /\ c_ret' = get_next_run_time_for(c_cfg, get_ist_time(c_now))
  /\ c_pc' = "returned"
  /\ UNCHANGED <<pvars, lvars, rvars, gvars, c_cfg, c_now>>

ConfigNext == ConfigCall

ConfigSpec == ConfigInit /\ [][ConfigNext]_vars

\* SessionConfig's invariants: start < end, and the interval divides the
\* size of the window evenly.
WindowMinutes(cfg) ==
  (cfg.end_hour * 60 + cfg.end_minute) - (cfg.start_hour * 60 + cfg.start_minute)
ConfigInvariant(cfg) == WindowMinutes(cfg) > 0 /\ WindowMinutes(cfg) % cfg.interval = 0

\* C17: under a configuration that satisfies SessionConfig's invariants
\* get_next_run_time returns an Instant for every now; it never builds a
\* time with a minute outside 0..59 or an hour outside 0..23.
C17_ValidConfigNeverFails ==
  (c_pc = "returned" /\ ConfigInvariant(c_cfg)) => c_ret # ValueError

\* ------------------------------------- __main__'s single-instance guard
Procs == 1 .. NumProcs
\* A pid of no process, and the pid of a live process that is not a python.
StalePid == NumProcs + 1
ForeignPid == NumProcs + 2
NoFile == [kind |-> "absent", pid |-> 0]
EmptyFile == [kind |-> "empty", pid |-> 0]
PidFileOf(n) == [kind |-> "pid", pid |-> n]

\* psutil.Process(pid).name().lower().startswith("python")
is_python_process(n, pcs) == n \in Procs /\ pcs[n] \notin {"exit1", "exited"}

\* open() or int() failing is swallowed by the bare except: False
check_if_already_running(file, pcs) ==
  file.kind = "pid" /\ is_python_process(file.pid, pcs)

\* The processes start together; the file is absent or left from before.
GuardInit ==
  /\ g_pc = [p \in Procs |-> "start"]
  /\ pid_file \in {NoFile, EmptyFile, PidFileOf(StalePid), PidFileOf(ForeignPid)}
  /\ PlannerIdle /\ LoopIdle /\ RetryIdle /\ ConfigIdle

\* if check_if_already_running(): sys.exit(1)
GuardCheck(p) ==
  /\ g_pc[p] = "start"
  /\ g_pc' = [g_pc EXCEPT ![p] = IF check_if_already_running(pid_file, g_pc)
                                  THEN "exit1" ELSE "create"]
  /\ UNCHANGED <<pvars, lvars, rvars, cvars, pid_file>>

\* create_pid_file: open(..., "w") creates the file or truncates it
OpenPidFile(p) ==
  /\ g_pc[p] = "create"
  /\ pid_file' = EmptyFile
  /\ g_pc' = [g_pc EXCEPT ![p] = "write"]
  /\ UNCHANGED <<pvars, lvars, rvars, cvars>>

\* f.write(pid) and the close; a file that was removed while it was open
\* stays removed
WritePidFile(p) ==
  /\ g_pc[p] \in {"write", "write_unlinked"}
  /\ pid_file' = IF g_pc[p] = "write" THEN PidFileOf(p) ELSE pid_file
  /\ g_pc' = [g_pc EXCEPT ![p] = "atexit"]
  /\ UNCHANGED <<pvars, lvars, rvars, cvars>>

\* atexit.register(remove_pid_file)
RegisterAtexit(p) ==
  /\ g_pc[p] = "atexit"
  /\ g_pc' = [g_pc EXCEPT ![p] = "signals"]
  /\ UNCHANGED <<pvars, lvars, rvars, cvars, pid_file>>

\* signal.signal(SIGINT, ...), signal.signal(SIGTERM, ...); main_loop()
RegisterSignals(p) ==
  /\ g_pc[p] = "signals"
  /\ g_pc' = [g_pc EXCEPT ![p] = "main_loop"]
  /\ UNCHANGED <<pvars, lvars, rvars, cvars, pid_file>>

\* remove_pid_file runs on the way out: from signal_handler and the finally
\* once main_loop is entered, from atexit on a KeyboardInterrupt before that
removes_pid_file(at, sig) == at = "main_loop" \/ (at = "signals" /\ sig = "SIGINT")

\* A signal ends a process that has not exited; os.remove takes the file
\* away from the processes that hold it open.
GuardSignal(p) ==
  /\ g_pc[p] \notin {"exit1", "exited"}
  /\ \E sig \in {"SIGINT", "SIGTERM"} :
       IF removes_pid_file(g_pc[p], sig)
       THEN /\ pid_file' = NoFile
            /\ g_pc' = [q \in Procs |->
                          IF q = p THEN "exited"
                          ELSE IF g_pc[q] = "write" THEN "write_unlinked"
                          ELSE g_pc[q]]
       ELSE /\ pid_file' = pid_file
            /\ g_pc' = [g_pc EXCEPT ![p] = "exited"]
  /\ UNCHANGED <<pvars, lvars, rvars, cvars>>

GuardNext ==
  \E p \in Procs :
    \/ GuardCheck(p) \/ OpenPidFile(p) \/ WritePidFile(p)
    \/ RegisterAtexit(p) \/ RegisterSignals(p) \/ GuardSignal(p)

GuardSpec == GuardInit /\ [][GuardNext]_vars

\* C20: of the processes that start together at most one enters main_loop.
C20_AtMostOneInMainLoop ==
  Cardinality({p \in Procs : g_pc[p] = "main_loop"}) <= 1

====
